---------------------------- MODULE Spec2Model ----------------------------
(***************************************************************************)
(* Huffman table construction of huffman-rs (src/src/lib.rs):              *)
(*   generate_char_table -> build_priority_queue -> build_huff_tree ->     *)
(*   HuffTable::from_huff_tree.                                            *)
(*                                                                         *)
(* The queue is a std BinaryHeap<Reverse<HuffTree>>.  It is modelled as    *)
(* the heap's backing vector, with the sift operations of the standard     *)
(* library, because the order of extraction on weight ties is decided by   *)
(* them.  The heap compares its elements with the operators <=, >= and <,  *)
(* which for Reverse<HuffTree> go to HuffTree's PartialOrd (partial_cmp),  *)
(* not to Ord::cmp.                                                        *)
(*                                                                         *)
(* A HashMap has no defined iteration order: build_priority_queue draws    *)
(* the order of the leaves nondeterministically.                           *)
(***************************************************************************)
EXTENDS Integers, Sequences, FiniteSets, TLC

VARIABLES contents, pc, char_table, queue, tmp1, tmp2, huff_tree, huff_table, merges

vars == <<contents, pc, char_table, queue, tmp1, tmp2, huff_tree, huff_table, merges>>

-----------------------------------------------------------------------------
(* Bounds and inputs *)

\* longest generated input of the pipeline (symbols in alphabet order)
MaxLen == 6

\* longest generated input of the frequency counter alone (any order)
MaxCountLen == 4

Chars == <<"a", "b", "c", "d", "\n">>

RECURSIVE Repeat(_, _)
Repeat(c, n) == IF n = 0 THEN <<>> ELSE <<c>> \o Repeat(c, n - 1)

RECURSIVE Spell(_, _)
Spell(cnt, i) ==
    IF i > Len(Chars) THEN <<>> ELSE Repeat(Chars[i], cnt[i]) \o Spell(cnt, i + 1)

RECURSIVE Total(_, _)
Total(cnt, i) == IF i > Len(Chars) THEN 0 ELSE cnt[i] + Total(cnt, i + 1)

\* every multiset of at most MaxLen symbols, spelled in alphabet order
GeneratedInputs ==
    { Spell(cnt, 1) : cnt \in { c \in [1..Len(Chars) -> 0..MaxLen] : Total(c, 1) <= MaxLen } }

\* the inputs of the unit tests of lib.rs
ScenarioHello == <<"h", "e", "l", "l", "o">>
ScenarioQueue == <<"a", "b", "b", "c", "c", "c", "d", "d", "d", "d">>
ScenarioTable == <<"a", "a", "a", "a", "a", "b", "b", "b", "c", "c", "d", "\n">>

ScenarioInputs == {ScenarioHello, ScenarioQueue, ScenarioTable}

Inputs == GeneratedInputs \cup ScenarioInputs

\* every sequence of at most MaxCountLen symbols, in any order
CountInputs ==
    UNION { [1..n -> {Chars[i] : i \in 1..Len(Chars)}] : n \in 0..MaxCountLen }
        \cup ScenarioInputs

-----------------------------------------------------------------------------
(* generate_char_table *)

entry_add_or_insert_1(acc, char) ==
    LET e == IF char \in DOMAIN acc THEN acc ELSE acc @@ (char :> 1)
    IN  [e EXCEPT ![char] = @ + 1]

\* *acc.entry(char).or_insert(0) += 1
entry_add(acc, char) ==
    LET e == IF char \in DOMAIN acc THEN acc ELSE acc @@ (char :> 0)
    IN  [e EXCEPT ![char] = @ + 1]

RECURSIVE fold_chars(_, _, _)
fold_chars(acc, s, i) ==
    IF i > Len(s) THEN acc ELSE fold_chars(entry_add(acc, s[i]), s, i + 1)

generate_char_table(s) == fold_chars(<<>>, s, 1)

-----------------------------------------------------------------------------
(* HuffNode, HuffTree *)

NoTree == [kind |-> "None"]

new_leaf(element, w) == [kind |-> "Leaf", element |-> element, weight |-> w]

Internal(w, left, right) ==
    [kind |-> "Internal", weight |-> w, left |-> left, right |-> right]

weight(t) == t.weight

new_internal_strict(left, right) ==
    LET left_weight == left.weight
        right_weight == right.weight
        total_weight == left_weight + right_weight
    IN  IF left_weight < right_weight
        THEN Internal(total_weight, left, right)
        ELSE Internal(total_weight, right, left)

new_internal_left_weight(left, right) ==
    LET left_weight == left.weight
        right_weight == right.weight
        total_weight == left_weight
    IN  IF left_weight <= right_weight
        THEN Internal(total_weight, left, right)
        ELSE Internal(total_weight, right, left)

new_internal(left, right) ==
    LET left_weight == left.weight
        right_weight == right.weight
        total_weight == left_weight + right_weight
    IN  IF left_weight <= right_weight
        THEN Internal(total_weight, left, right)
        ELSE Internal(total_weight, right, left)

-----------------------------------------------------------------------------
(* PartialEq, PartialOrd, Ord for HuffTree; PartialOrd for Reverse<HuffTree> *)

Some(x) == <<"Some", x>>

usize_cmp(x, y) == IF x < y THEN "Less" ELSE IF x = y THEN "Equal" ELSE "Greater"

eq(self, other) == weight(self) = weight(other)

partial_cmp(self, other) == Some(usize_cmp(weight(self), weight(other)))

cmp(self, other) ==
    LET first == usize_cmp(weight(self), weight(other))
    IN  IF first # "Equal" THEN first
        ELSE IF self.kind = "Leaf" /\ other.kind = "Internal" THEN "Less"
        ELSE IF self.kind = "Internal" /\ other.kind = "Leaf" THEN "Greater"
        ELSE "Equal"

\* the provided methods of PartialOrd: lt, le, ge go through partial_cmp
lt(self, other) == partial_cmp(self, other) = Some("Less")
le(self, other) == partial_cmp(self, other) \in {Some("Less"), Some("Equal")}
ge(self, other) == partial_cmp(self, other) \in {Some("Greater"), Some("Equal")}

\* Reverse(a) < Reverse(b) is b < a, and likewise for <= and >=
rev_lt(a, b) == lt(b, a)
rev_le(a, b) == le(b, a)
rev_ge(a, b) == ge(b, a)

-----------------------------------------------------------------------------
(* BinaryHeap<Reverse<HuffTree>>: the vector d holds position p at d[p + 1] *)

RECURSIVE sift_up_from(_, _, _, _)
sift_up_from(d, elt, start, pos) ==
    IF pos > start
    THEN LET parent == (pos - 1) \div 2
         IN  IF rev_le(elt, d[parent + 1])
             THEN [d EXCEPT ![pos + 1] = elt]
             ELSE sift_up_from([d EXCEPT ![pos + 1] = d[parent + 1]], elt, start, parent)
    ELSE [d EXCEPT ![pos + 1] = elt]

sift_up(d, start, pos) == sift_up_from(d, d[pos + 1], start, pos)

saturating_sub(x, y) == IF x >= y THEN x - y ELSE 0

RECURSIVE sift_down_range_from(_, _, _, _)
sift_down_range_from(d, elt, pos, end) ==
    LET child == 2 * pos + 1
    IN  IF child <= saturating_sub(end, 2)
        THEN LET c == IF rev_le(d[child + 1], d[child + 2]) THEN child + 1 ELSE child
             IN  IF rev_ge(elt, d[c + 1])
                 THEN [d EXCEPT ![pos + 1] = elt]
                 ELSE sift_down_range_from([d EXCEPT ![pos + 1] = d[c + 1]], elt, c, end)
        ELSE IF child = end - 1 /\ rev_lt(elt, d[child + 1])
             THEN [d EXCEPT ![pos + 1] = d[child + 1], ![child + 1] = elt]
             ELSE [d EXCEPT ![pos + 1] = elt]

sift_down(d, pos) == sift_down_range_from(d, d[pos + 1], pos, Len(d))

\* moves the hole to the bottom; the result is <<vector, position of the element>>
RECURSIVE hole_to_bottom(_, _, _)
hole_to_bottom(d, elt, pos) ==
    LET end == Len(d)
        child == 2 * pos + 1
    IN  IF child <= saturating_sub(end, 2)
        THEN LET c == IF rev_le(d[child + 1], d[child + 2]) THEN child + 1 ELSE child
             IN  hole_to_bottom([d EXCEPT ![pos + 1] = d[c + 1]], elt, c)
        ELSE IF child = end - 1
             THEN <<[d EXCEPT ![pos + 1] = d[child + 1], ![child + 1] = elt], child>>
             ELSE <<[d EXCEPT ![pos + 1] = elt], pos>>

sift_down_to_bottom(d, pos) ==
    LET r == hole_to_bottom(d, d[pos + 1], pos)
    IN  sift_up(r[1], pos, r[2])

RECURSIVE rebuild_from(_, _)
rebuild_from(d, n) == IF n > 0 THEN rebuild_from(sift_down(d, n - 1), n - 1) ELSE d

rebuild(d) == rebuild_from(d, Len(d) \div 2)

\* BinaryHeap::pop on a non-empty heap: <<the item, the heap left>>
heap_pop(d) ==
    LET item == d[Len(d)]
        rest == SubSeq(d, 1, Len(d) - 1)
    IN  IF rest # <<>>
        THEN <<rest[1], sift_down_to_bottom([rest EXCEPT ![1] = item], 0)>>
        ELSE <<item, rest>>

heap_push(d, item) == sift_up(Append(d, item), 0, Len(d))

-----------------------------------------------------------------------------
(* HuffTable *)

add_row(rows, char, frequency, code, bits) ==
    Append(rows, [char |-> char, frequency |-> frequency, code |-> code, bits |-> bits])

\* code << 1 and (code << 1) | 1: the depth of a tree of at most Len(Chars)
\* leaves stays far below the width of usize
shl1(code) == code * 2
shl1_or_1(code) == code * 2 + 1

RECURSIVE traverse_tree_same_bit(_, _, _, _)
traverse_tree_same_bit(node, code, bits, rows) ==
    IF node.kind = "Leaf"
    THEN add_row(rows, node.element, node.weight, code, bits)
    ELSE traverse_tree_same_bit(node.right, shl1(code), bits + 1,
             traverse_tree_same_bit(node.left, shl1(code), bits + 1, rows))

RECURSIVE traverse_tree_left_only(_, _, _, _)
traverse_tree_left_only(node, code, bits, rows) ==
    IF node.kind = "Leaf"
    THEN add_row(rows, node.element, node.weight, code, bits)
    ELSE traverse_tree_left_only(node.left, shl1(code), bits + 1, rows)

RECURSIVE traverse_tree(_, _, _, _)
traverse_tree(node, code, bits, rows) ==
    IF node.kind = "Leaf"
    THEN add_row(rows, node.element, node.weight, code, bits)
    ELSE traverse_tree(node.right, shl1_or_1(code), bits + 1,
             traverse_tree(node.left, shl1(code), bits + 1, rows))

from_huff_tree(t) == traverse_tree(t, 0, 0, <<>>)

-----------------------------------------------------------------------------
(* The pipeline of run *)

Init ==
    /\ contents \in Inputs
    /\ pc = "start"
    /\ char_table = <<>>
    /\ queue = <<>>
    /\ tmp1 = NoTree
    /\ tmp2 = NoTree
    /\ huff_tree = NoTree
    /\ huff_table = <<>>
    /\ merges = 0

\* let char_table = generate_char_table(contents)
GenerateCharTable ==
    /\ pc = "start"
    /\ char_table' = generate_char_table(contents)
    /\ pc' = "counted"
    /\ UNCHANGED <<contents, queue, tmp1, tmp2, huff_tree, huff_table, merges>>

\* the orders in which a HashMap with these keys can be iterated
IterationOrders(keys) ==
    { o \in [1..Cardinality(keys) -> keys] : \A i, j \in DOMAIN o : o[i] = o[j] => i = j }

\* char_table.iter().map(new_leaf).collect(): Vec, then BinaryHeap::from
build_priority_queue(table, order) ==
    rebuild([i \in DOMAIN order |-> new_leaf(order[i], table[order[i]])])

BuildPriorityQueue ==
    /\ pc = "counted"
    /\ \E order \in IterationOrders(DOMAIN char_table) :
           queue' = build_priority_queue(char_table, order)
    /\ pc' = "loop"
    /\ UNCHANGED <<contents, char_table, tmp1, tmp2, huff_tree, huff_table, merges>>

\* while queue.len() > 1
loop_condition_nonempty(q) == Len(q) >= 1

loop_condition(q) == Len(q) > 1

\* let tmp1 = queue.pop().expect(..)
PopFirst ==
    /\ pc = "loop"
    /\ loop_condition(queue)
    /\ IF queue = <<>>
       THEN pc' = "panic" /\ UNCHANGED <<queue, tmp1>>
       ELSE /\ tmp1' = heap_pop(queue)[1]
            /\ queue' = heap_pop(queue)[2]
            /\ pc' = "pop2"
    /\ UNCHANGED <<contents, char_table, tmp2, huff_tree, huff_table, merges>>

\* let tmp2 = queue.pop().expect(..)
PopSecond ==
    /\ pc = "pop2"
    /\ IF queue = <<>>
       THEN pc' = "panic" /\ UNCHANGED <<queue, tmp2>>
       ELSE /\ tmp2' = heap_pop(queue)[1]
            /\ queue' = heap_pop(queue)[2]
            /\ pc' = "combine"
    /\ UNCHANGED <<contents, char_table, tmp1, huff_tree, huff_table, merges>>

\* let combined = new_internal(tmp1, tmp2); queue.push(Reverse(combined))
PushCombined ==
    /\ pc = "combine"
    /\ queue' = heap_push(queue, new_internal(tmp1, tmp2))
    /\ tmp1' = NoTree
    /\ tmp2' = NoTree
    /\ merges' = merges + 1
    /\ pc' = "loop"
    /\ UNCHANGED <<contents, char_table, huff_tree, huff_table>>

\* queue.pop().expect(..) after the loop, on a queue that holds a tree
ReturnTree ==
    /\ pc = "loop"
    /\ ~loop_condition(queue)
    /\ queue # <<>>
    /\ huff_tree' = heap_pop(queue)[1]
    /\ queue' = heap_pop(queue)[2]
    /\ pc' = "built"
    /\ UNCHANGED <<contents, char_table, tmp1, tmp2, huff_table, merges>>

\* queue.pop().expect(..) after the loop, on an empty queue: expect panics
ReturnPanics ==
    /\ pc = "loop"
    /\ ~loop_condition(queue)
    /\ queue = <<>>
    /\ pc' = "panic"
    /\ UNCHANGED <<contents, char_table, queue, tmp1, tmp2, huff_tree, huff_table, merges>>

\* let huff_table = HuffTable::from_huff_tree(huff_tree)
FromHuffTree ==
    /\ pc = "built"
    /\ huff_table' = from_huff_tree(huff_tree)
    /\ pc' = "done"
    /\ UNCHANGED <<contents, char_table, queue, tmp1, tmp2, huff_tree, merges>>

Next ==
    \/ GenerateCharTable
    \/ BuildPriorityQueue
    \/ PopFirst
    \/ PopSecond
    \/ PushCombined
    \/ ReturnTree
    \/ ReturnPanics
    \/ FromHuffTree

Spec == Init /\ [][Next]_vars

\* run is one thread running to completion: a step that can be taken is taken
FairSpec == Spec /\ WF_vars(Next)

\* generate_char_table alone, on inputs in any order
CountInit ==
    /\ contents \in CountInputs
    /\ pc = "start"
    /\ char_table = <<>>
    /\ queue = <<>>
    /\ tmp1 = NoTree
    /\ tmp2 = NoTree
    /\ huff_tree = NoTree
    /\ huff_table = <<>>
    /\ merges = 0

CountNext == GenerateCharTable

CountSpec == CountInit /\ [][CountNext]_vars

-----------------------------------------------------------------------------
(* What the input holds, counted directly from the sequence *)

DistinctSymbols(s) == { s[i] : i \in 1..Len(s) }

Occurrences(s, c) == Cardinality({ i \in 1..Len(s) : s[i] = c })

RECURSIVE SumValues(_, _)
SumValues(f, keys) ==
    IF keys = {} THEN 0
    ELSE LET k == CHOOSE x \in keys : TRUE IN f[k] + SumValues(f, keys \ {k})

RECURSIVE SumWeights(_, _)
SumWeights(q, i) == IF i > Len(q) THEN 0 ELSE q[i].weight + SumWeights(q, i + 1)

RECURSIVE WellWeighted(_)
WellWeighted(node) ==
    IF node.kind = "Leaf" THEN TRUE
    ELSE /\ node.weight = node.left.weight + node.right.weight
         /\ WellWeighted(node.left)
         /\ WellWeighted(node.right)

RECURSIVE Pow2(_)
Pow2(n) == IF n = 0 THEN 1 ELSE 2 * Pow2(n - 1)

\* the code of row r, read as r.bits bits, is a bit-prefix of the code of row s
IsBitPrefix(r, s) == r.bits <= s.bits /\ s.code \div Pow2(s.bits - r.bits) = r.code

\* the number of leaves the queue was seeded with
Seeded == Cardinality(DOMAIN char_table)

\* x is minimal among x and the nodes of q under the order (weight, kind)
MinimalIn(x, q) ==
    \A i \in DOMAIN q :
        /\ q[i].weight >= x.weight
        /\ x.kind = "Internal" => ~(q[i].kind = "Leaf" /\ q[i].weight = x.weight)

\* the trees the program holds: in the queue, popped, or returned
TreesInPlay == ({ queue[i] : i \in DOMAIN queue } \cup {tmp1, tmp2, huff_tree}) \ {NoTree}

-----------------------------------------------------------------------------
(* Claims *)

\* C1: for an input with at least two distinct symbols the finished table is
\* prefix-free: of two rows of distinct symbols neither code, read as a string
\* of `bits` bits, is a bit-prefix of the other, whatever the insertion order.
C1_PrefixFree ==
    (pc = "done" /\ Cardinality(DistinctSymbols(contents)) >= 2) =>
        \A i, j \in DOMAIN huff_table :
            huff_table[i].char # huff_table[j].char =>
                ~IsBitPrefix(huff_table[i], huff_table[j])

C1_Witness ==
    /\ pc = "done"
    /\ Len(huff_table) = 5
    /\ \E i, j \in DOMAIN huff_table : huff_table[i].bits < huff_table[j].bits

\* C2: for a non-empty input the finished table has exactly one row per
\* distinct symbol and no other row: as many rows as distinct symbols, no symbol
\* in two rows, each row's frequency the number of occurrences of its symbol.
C2_OneRowPerSymbol ==
    (pc = "done" /\ contents # <<>>) =>
        /\ Len(huff_table) = Cardinality(DistinctSymbols(contents))
        /\ \A i, j \in DOMAIN huff_table :
               huff_table[i].char = huff_table[j].char => i = j
        /\ \A i \in DOMAIN huff_table :
               /\ huff_table[i].char \in DistinctSymbols(contents)
               /\ huff_table[i].frequency = Occurrences(contents, huff_table[i].char)

C2_Witness ==
    /\ pc = "done"
    /\ Len(huff_table) = 4
    /\ \E i \in DOMAIN huff_table : huff_table[i].frequency = 3

\* C3: weight is conserved by merging: at the head of the merge loop, after any
\* number of iterations, the weights of the trees in the queue sum to the input
\* length and every Internal node weighs its two children together; the root
\* build_huff_tree returns weighs the input length.
C3_WeightConserved ==
    /\ pc = "loop" =>
           /\ SumWeights(queue, 1) = Len(contents)
           /\ \A i \in DOMAIN queue : WellWeighted(queue[i])
    /\ pc \in {"built", "done"} =>
           /\ weight(huff_tree) = Len(contents)
           /\ WellWeighted(huff_tree)

C3_Witness ==
    /\ pc = "loop"
    /\ merges >= 2
    /\ Len(queue) >= 2
    /\ \E i \in DOMAIN queue : queue[i].kind = "Internal"

\* C4: for every input sequence generate_char_table returns the mapping whose
\* keys are exactly the distinct symbols of the input, whose value for a key is
\* the number of occurrences of that symbol (so at least 1), and whose values
\* sum to the input length; the empty input gives the empty mapping.
C4_CharTableCounts ==
    pc = "counted" =>
        /\ DOMAIN char_table = DistinctSymbols(contents)
        /\ \A c \in DOMAIN char_table :
               char_table[c] = Occurrences(contents, c) /\ char_table[c] >= 1
        /\ SumValues(char_table, DOMAIN char_table) = Len(contents)
        /\ contents = <<>> => DOMAIN char_table = {}

C4_Witness ==
    /\ pc = "counted"
    /\ contents = <<"b", "a", "b", "\n">>
    /\ char_table["b"] = 2

\* C5: every extraction from the merge queue returns a node that is minimal
\* under (weight, kind): no node left in the queue weighs strictly less, and
\* if an Internal node is returned no Leaf of the same weight is left.
C5_ExtractMin ==
    /\ pc = "pop2" => MinimalIn(tmp1, queue)
    /\ pc = "combine" => MinimalIn(tmp2, queue)
    /\ pc = "built" => MinimalIn(huff_tree, queue)

\* C6: for the input "aaaaabbbccd\n", for every insertion order of the five
\* leaves, the first three rows of the table are (a, 5, code 0, 1 bit),
\* (b, 3, code 2, 2 bits), (c, 2, code 6, 3 bits).
C6_ScenarioRows ==
    (pc = "done" /\ contents = ScenarioTable) =>
        /\ Len(huff_table) >= 3
        /\ huff_table[1] = [char |-> "a", frequency |-> 5, code |-> 0, bits |-> 1]
        /\ huff_table[2] = [char |-> "b", frequency |-> 3, code |-> 2, bits |-> 2]
        /\ huff_table[3] = [char |-> "c", frequency |-> 2, code |-> 6, bits |-> 3]

C6_Witness ==
    /\ pc = "done"
    /\ contents = ScenarioTable
    /\ Len(huff_table) = 5

\* C7: on the empty input (no entry in the frequency mapping, an empty queue)
\* the tree-building stage reports an absent result: it does not panic.
C7_EmptyInputReported == DOMAIN char_table = {} => pc # "panic"

\* C8: for an input with exactly one distinct symbol the table has exactly one
\* row and the row's code length is at least 1 bit.
C8_SingletonHasBits ==
    (pc = "done" /\ Cardinality(DistinctSymbols(contents)) = 1) =>
        /\ Len(huff_table) = 1
        /\ huff_table[1].bits >= 1

\* C9: for a queue seeded with n >= 1 leaves the merge loop terminates: at the
\* head of the loop the queue holds n minus the number of merges done (each
\* iteration takes one off), no pop of the loop finds the queue empty, the loop
\* is left with exactly one tree after exactly n - 1 merges, and it is left.
C9_LoopStep ==
    /\ pc = "loop" => Len(queue) + merges = Seeded
    /\ pc = "pop2" => Len(queue) + merges = Seeded - 1 /\ queue # <<>>
    /\ pc = "combine" => Len(queue) + merges = Seeded - 2
    /\ Seeded >= 1 => pc # "panic"
    /\ (pc = "loop" /\ Seeded >= 1 /\ ~loop_condition(queue)) =>
           Len(queue) = 1 /\ merges = Seeded - 1
    /\ pc = "built" => queue = <<>> /\ merges = Seeded - 1

C9_LoopTerminates ==
    /\ []C9_LoopStep
    /\ (pc = "loop" /\ Seeded >= 1) ~> (pc = "built" /\ merges = Seeded - 1)

C9_Witness ==
    /\ pc = "built"
    /\ Seeded = 5
    /\ merges = 4

\* C10: the comparisons of HuffTree agree: for every pair of trees a, b,
\* partial_cmp(a, b) is Some(cmp(a, b)), and a == b exactly when cmp(a, b) is
\* Equal.  Stated of every pair of trees the program holds at one time.
C10_ComparisonsAgree ==
    \A a, b \in TreesInPlay :
        /\ partial_cmp(a, b) = Some(cmp(a, b))
        /\ eq(a, b) <=> cmp(a, b) = "Equal"

=============================================================================
